---- MODULE Spec2Model ----
(***************************************************************************)
(* b2fs: the credential bootstrap of main() in src/src/b2fs.c.             *)
(*                                                                         *)
(* Bytes are one-character strings; NUL is the terminator.  A C object is  *)
(* a function from the offsets that hold a non-NUL byte to that byte, so   *)
(* zeroed memory is the empty function and a C string read runs from an    *)
(* offset to the first offset outside the domain, across field boundaries *)
(* exactly as strlen/fprintf("%s") do.                                     *)
(***************************************************************************)
EXTENDS Integers, Sequences, FiniteSets, TLC

(* ------------------------------------------------------------------ *)
(* Constants of b2fs.c                                                  *)
(* ------------------------------------------------------------------ *)
B2FS_SUCCESS == 0
B2FS_GENERIC_ERROR == -1
B2FS_GENERIC_NETWORK_ERROR == -2
B2FS_NETWORK_ACCESS_ERROR == -256
B2FS_NETWORK_INTERN_ERROR == -257
B2FS_NETWORK_API_ERROR == -258

B2FS_ACCOUNT_ID_LEN == 16
B2FS_APP_KEY_LEN == 64
B2FS_TOKEN_LEN == 128
B2FS_SMALL_GENERIC_BUFFER == 256

EXIT_FAILURE == 1

(* jsmn's error codes and token types (jsmn/jsmn.h) *)
JSMN_ERROR_NOMEM == -1
JSMN_ERROR_INVAL == -2
JSMN_ERROR_PART == -3
JSMN_PRIMITIVE == "PRIMITIVE"
JSMN_OBJECT == "OBJECT"
JSMN_ARRAY == "ARRAY"
JSMN_STRING == "STRING"

(* ------------------------------------------------------------------ *)
(* Bytes, strings and memory                                            *)
(* ------------------------------------------------------------------ *)
NUL == "NUL"
NULL == "NULL"
Q == "\""
Whitespace == {" ", "\n", "\t", "\r"}

Min(S) == CHOOSE m \in S : \A n \in S : m <= n

Rep(c, n) == [i \in 1..n |-> c]

(* struct b2fs_state: token, api_url, down_url, bucket, fs_cache *)
OffToken == 0
OffApiUrl == B2FS_TOKEN_LEN
OffDownUrl == 2 * B2FS_TOKEN_LEN
OffBucket == 3 * B2FS_TOKEN_LEN
OffFsCache == 3 * B2FS_TOKEN_LEN + B2FS_SMALL_GENERIC_BUFFER
SizeofState == OffFsCache + 8

(* struct b2_account: account_id, app_key *)
OffAccountId == 0
OffAppKey == B2FS_ACCOUNT_ID_LEN
SizeofAccount == B2FS_ACCOUNT_ID_LEN + B2FS_APP_KEY_LEN

(* memset(p, 0, size) *)
Zeroed == <<>>

(* an object never written: every byte is whatever the stack held *)
Garbage(size) == [o \in 0..(size - 1) |-> "?"]

(* strlen(p + off): bytes up to the first NUL, field boundaries ignored *)
strlen(mem, off) ==
  Min({k \in 0..Cardinality(DOMAIN mem) : (off + k) \notin DOMAIN mem})

(* the C string at p + off *)
CStr(mem, off) == [i \in 1..strlen(mem, off) |-> mem[off + i - 1]]

(* memcpy(p + off, bytes, Len(bytes)) into an object of `size` bytes; the  *)
(* bytes that fall past the object are reported by Overrun, not stored     *)
Store(mem, off, bytes, size) ==
  LET hit == {o \in off..(off + Len(bytes) - 1) : o < size}
      nz == {o \in hit : bytes[o - off + 1] # NUL}
      D == (DOMAIN mem \ hit) \cup nz
  IN [o \in D |-> IF o \in hit THEN bytes[o - off + 1] ELSE mem[o]]

Overrun(off, n, size) == off + n > size

(* strcpy(p + off, s) and the "%s" conversion of fscanf: s and its NUL *)
StoreStr(mem, off, s, size) == Store(mem, off, s \o <<NUL>>, size)

(* strncpy(p + off, s, n): the first n bytes of s, NUL-padded to n bytes *)
strncpy(mem, off, s, n, size) ==
  Store(mem, off, [i \in 1..n |-> IF i <= Len(s) THEN s[i] ELSE NUL], size)

(* ------------------------------------------------------------------ *)
(* fscanf("%s"): skip white space, then read up to the next white space *)
(* ------------------------------------------------------------------ *)
(* first offset >= pos (1-based) of f that is not white space, or Len+1 *)
SkipSpace(f, pos) ==
  Min({i \in pos..(Len(f) + 1) : i = Len(f) + 1 \/ f[i] \notin Whitespace})

(* first offset >= pos of f that is white space, or Len+1 *)
TokenEnd(f, pos) ==
  Min({i \in pos..(Len(f) + 1) : i = Len(f) + 1 \/ f[i] \in Whitespace})

(* one %s conversion at pos: ok is FALSE at end of file (nothing stored) *)
ScanS(f, pos) ==
  LET s == SkipSpace(f, pos)
      e == TokenEnd(f, s)
  IN [ok |-> s <= Len(f), tok |-> SubSeq(f, s, e - 1), next |-> e]

(* ------------------------------------------------------------------ *)
(* find_tmpdir                                                          *)
(* ------------------------------------------------------------------ *)
(* a find_tmpdir without the !*out tests: the last variable set wins *)
find_tmpdir_last(e) ==
  IF e.TEMPDIR # NULL THEN e.TEMPDIR
  ELSE IF e.TEMP # NULL THEN e.TEMP
  ELSE IF e.TMP # NULL THEN e.TMP
  ELSE IF e.TMPDIR # NULL THEN e.TMPDIR
  ELSE IF e.tmp_readable THEN "/tmp"
  ELSE NULL

find_tmpdir(e) ==
  IF e.TMPDIR # NULL THEN e.TMPDIR
  ELSE IF e.TMP # NULL THEN e.TMP
  ELSE IF e.TEMP # NULL THEN e.TEMP
  ELSE IF e.TEMPDIR # NULL THEN e.TEMPDIR
  ELSE IF e.tmp_readable THEN "/tmp"
  ELSE NULL

(* ------------------------------------------------------------------ *)
(* cache_auth / find_cached_auth                                        *)
(* ------------------------------------------------------------------ *)
NoFile == <<"NoFile">>

(* fprintf(cache_out, "%s\n%s\n%s", token, api_url, down_url) *)
CacheRecord(mem) ==
  CStr(mem, OffToken) \o <<"\n">> \o CStr(mem, OffApiUrl) \o <<"\n">>
    \o CStr(mem, OffDownUrl)

(* a cache_auth that writes to /tmp when nothing resolves *)
cache_auth_fallback(mem, e, files, can_open) ==
  LET tmpdir == IF find_tmpdir(e) = NULL THEN "/tmp" ELSE find_tmpdir(e)
  IN IF ~can_open THEN files
     ELSE [files EXCEPT ![tmpdir] = CacheRecord(mem)]

(* the file system after cache_auth; can_open: whether fopen(path, "w+") *)
(* succeeds                                                             *)
cache_auth(mem, e, files, can_open) ==
  LET tmpdir == find_tmpdir(e)
  IN IF tmpdir = NULL THEN files
     ELSE IF ~can_open THEN files
     ELSE [files EXCEPT ![tmpdir] = CacheRecord(mem)]

(* fscanf(cache_in, "%s\n%s\n%s", token, api_url, down_url): conversions *)
(* stop at the first one that fails                                      *)
ScanCache(f, mem) ==
  LET t1 == ScanS(f, 1)
      m1 == IF t1.ok THEN StoreStr(mem, OffToken, t1.tok, SizeofState) ELSE mem
      t2 == ScanS(f, t1.next)
      m2 == IF t1.ok /\ t2.ok
            THEN StoreStr(m1, OffApiUrl, t2.tok, SizeofState) ELSE m1
      t3 == ScanS(f, t2.next)
      m3 == IF t1.ok /\ t2.ok /\ t3.ok
            THEN StoreStr(m2, OffDownUrl, t3.tok, SizeofState) ELSE m2
  IN m3

(* memset(b2_info, 0, sizeof(b2fs_state_t)) on entry *)
ClearBeforeRead(mem) == Zeroed

(* strlen(token) && strlen(api_url) && strlen(down_url) *)
CacheValid(m) ==
  strlen(m, OffToken) # 0 /\ strlen(m, OffApiUrl) # 0 /\ strlen(m, OffDownUrl) # 0

find_cached_auth(mem, e, files) ==
  LET tmpdir == find_tmpdir(e)
      zero == ClearBeforeRead(mem)
  IN IF tmpdir = NULL THEN [ret |-> B2FS_GENERIC_ERROR, mem |-> zero]
     ELSE IF files[tmpdir] = NoFile
     THEN [ret |-> B2FS_GENERIC_ERROR, mem |-> zero]
     ELSE LET m == ScanCache(files[tmpdir], zero)
              success == CacheValid(m)
          IN [ret |-> IF success THEN B2FS_SUCCESS ELSE B2FS_GENERIC_ERROR,
              mem |-> m]

(* ------------------------------------------------------------------ *)
(* parse_config                                                         *)
(* ------------------------------------------------------------------ *)
AccountIdKey == <<"a","c","c","o","u","n","t","_","i","d",":">>
AppKeyKey == <<"a","p","p","_","k","e","y",":">>

(* fscanf(config, "%s %s\n", keybuf, valbuf): a buffer whose conversion  *)
(* fails keeps what it held; overflow: a token and its NUL did not fit    *)
(* the B2FS_SMALL_GENERIC_BUFFER bytes of its buffer                      *)
ScanPair(f, pos, keybuf, valbuf) ==
  LET k == ScanS(f, pos)
      v == ScanS(f, k.next)
  IN [keybuf |-> IF k.ok THEN k.tok ELSE keybuf,
      valbuf |-> IF k.ok /\ v.ok THEN v.tok ELSE valbuf,
      next |-> IF k.ok THEN v.next ELSE k.next,
      overflow |-> \/ k.ok /\ Len(k.tok) + 1 > B2FS_SMALL_GENERIC_BUFFER
                   \/ k.ok /\ v.ok /\ Len(v.tok) + 1 > B2FS_SMALL_GENERIC_BUFFER]

(* one pass of the loop body after the fscanf: the strcpy into the field *)
(* the key names; smashed: the copy ran past the end of the struct       *)
StoreCredential(acc, keybuf, valbuf) ==
  IF keybuf = AccountIdKey
  THEN [mem |-> StoreStr(acc.mem, OffAccountId, valbuf, SizeofAccount),
        smashed |-> acc.smashed
          \/ Overrun(OffAccountId, Len(valbuf) + 1, SizeofAccount)]
  ELSE IF keybuf = AppKeyKey
  THEN [mem |-> StoreStr(acc.mem, OffAppKey, valbuf, SizeofAccount),
        smashed |-> acc.smashed
          \/ Overrun(OffAppKey, Len(valbuf) + 1, SizeofAccount)]
  ELSE acc

(* a parse_config that starts from whatever the struct held *)
KeepAccount(mem) == mem

(* memset(auth, 0, sizeof(b2_account_t)) *)
ClearAccount(mem) == Zeroed

(* junk: what keybuf and valbuf hold before the first fscanf *)
parse_config(mem, f, junk) ==
  LET zero == [mem |-> ClearAccount(mem), smashed |-> FALSE]
  IN IF f = NoFile THEN [ret |-> B2FS_GENERIC_ERROR, mem |-> zero.mem,
                         smashed |-> FALSE]
     ELSE LET p1 == ScanPair(f, 1, junk.keybuf, junk.valbuf)
              a1 == StoreCredential(zero, p1.keybuf, p1.valbuf)
              p2 == ScanPair(f, p1.next, p1.keybuf, p1.valbuf)
              a2 == StoreCredential(a1, p2.keybuf, p2.valbuf)
          IN [ret |-> B2FS_SUCCESS, mem |-> a2.mem,
              smashed |-> a2.smashed \/ p1.overflow \/ p2.overflow]

(* ------------------------------------------------------------------ *)
(* jsmn_parse (jsmn/jsmn.c, non-strict mode)                            *)
(* ------------------------------------------------------------------ *)
(* the parser's state: next byte to read (0-based), the tokens filled,  *)
(* and r = 0 while it runs, the error once it stopped                   *)
JsmnInit == [next |-> 0, toks |-> <<>>, r |-> 0]

PrimitiveEnd == Whitespace \cup {":", ",", "]", "}"}

(* index of the last token still open (end = -1), 0 when there is none *)
LastOpen(toks) ==
  LET open == {i \in 1..Len(toks) : toks[i].end = -1}
  IN IF open = {} THEN 0 ELSE CHOOSE i \in open : \A j \in open : j <= i

(* the parser's switch on the byte at pos *)
JsmnStep(st, js, pos, num_tokens) ==
  IF st.r # 0 \/ pos < st.next THEN st
  ELSE LET c == js[pos + 1]
           full == Len(st.toks) >= num_tokens
       IN CASE c \in {"{", "["} ->
                 IF full THEN [st EXCEPT !.r = JSMN_ERROR_NOMEM]
                 ELSE [st EXCEPT !.next = pos + 1,
                         !.toks = Append(@,
                           [type |-> IF c = "{" THEN JSMN_OBJECT ELSE JSMN_ARRAY,
                            start |-> pos, end |-> -1])]
            [] c \in {"}", "]"} ->
                 LET i == LastOpen(st.toks)
                     type == IF c = "}" THEN JSMN_OBJECT ELSE JSMN_ARRAY
                 IN IF i = 0 \/ st.toks[i].type # type
                    THEN [st EXCEPT !.r = JSMN_ERROR_INVAL]
                    ELSE [st EXCEPT !.next = pos + 1,
                            !.toks[i].end = pos + 1]
            [] c = Q ->
                 LET close == {j \in (pos + 1)..(Len(js) - 1) : js[j + 1] = Q}
                 IN IF close = {} THEN [st EXCEPT !.r = JSMN_ERROR_PART]
                    ELSE IF full THEN [st EXCEPT !.r = JSMN_ERROR_NOMEM]
                    ELSE [st EXCEPT !.next = Min(close) + 1,
                            !.toks = Append(@, [type |-> JSMN_STRING,
                              start |-> pos + 1, end |-> Min(close)])]
            [] c \in Whitespace \cup {":", ","} -> [st EXCEPT !.next = pos + 1]
            [] OTHER ->
                 LET e == Min({j \in pos..Len(js) :
                                 j = Len(js) \/ js[j + 1] \in PrimitiveEnd})
                 IN IF full THEN [st EXCEPT !.r = JSMN_ERROR_NOMEM]
                    ELSE [st EXCEPT !.next = e,
                            !.toks = Append(@, [type |-> JSMN_PRIMITIVE,
                              start |-> pos, end |-> e])]

(* the parser's for loop over the bytes lo..hi of js *)
RECURSIVE JsmnRun(_, _, _, _, _)
JsmnRun(st, js, lo, hi, num_tokens) ==
  IF lo > hi THEN st
  ELSE IF lo = hi THEN JsmnStep(st, js, lo, num_tokens)
  ELSE LET mid == (lo + hi) \div 2
           half == JsmnRun(st, js, lo, mid, num_tokens)
       IN IF half.r # 0 THEN half    \* the parser returned
          ELSE JsmnRun(half, js, mid + 1, hi, num_tokens)

(* [count, toks]: the return value and the tokens array as far as filled *)
jsmn_parse(js, num_tokens) ==
  LET st == JsmnRun(JsmnInit, js, 0, Len(js) - 1, num_tokens)
  IN [count |-> IF st.r # 0 THEN st.r
                ELSE IF LastOpen(st.toks) # 0 THEN JSMN_ERROR_PART
                ELSE Len(st.toks),
      toks |-> st.toks]

(* the keys attempt_authentication looks for *)
AuthorizationTokenKey ==
  <<"a","u","t","h","o","r","i","z","a","t","i","o","n","T","o","k","e","n">>
ApiUrlKey == <<"a","p","i","U","r","l">>
DownloadUrlKey == <<"d","o","w","n","l","o","a","d","U","r","l">>
AccountIdJsonKey == <<"a","c","c","o","u","n","t","I","d">>

(* ------------------------------------------------------------------ *)
(* The inputs: environment, cache files, config files, the network      *)
(* ------------------------------------------------------------------ *)
Dirs == {"/a", "/b", "/c", "/d", "/tmp"}

Env(a, b, c, d, r) ==
  [TMPDIR |-> a, TMP |-> b, TEMP |-> c, TEMPDIR |-> d, tmp_readable |-> r]

AllEnvs ==
  {Env(a, b, c, d, r) : a \in {NULL, "/a"}, b \in {NULL, "/b"},
                        c \in {NULL, "/c"}, d \in {NULL, "/d"},
                        r \in BOOLEAN}

(* the environments of the bootstrap runs explored *)
Envs ==
  {Env("/a", NULL, NULL, NULL, TRUE), Env(NULL, NULL, NULL, NULL, TRUE),
   Env(NULL, NULL, NULL, NULL, FALSE), Env(NULL, "/b", NULL, "/d", FALSE)}

(* the directory the cache file of a run lies in, when there is one *)
CacheDir(e) == IF find_tmpdir(e) = NULL THEN "/tmp" ELSE find_tmpdir(e)

ScenarioACache == <<"t","o","k","1","2","3","\n","h","t","t","p","s",":","/","/","a","p","i",".","e","x","a","m","p","l","e","\n","h","t","t","p","s",":","/","/","d","l",".","e","x","a","m","p","l","e">>
CacheTAD == <<"t","\n","a","\n","d">>
CacheTwoFields == <<"t","o","k","\n","a","p","i","\n">>
CacheOneField == <<"t","o","k">>
CacheLeadingNewline == <<"\n","a","p","i","\n","d","l">>
CacheFourFields == <<"p"," ","q"," ","r"," ","s">>
CachePadded == <<" "," ","p"," ","\n","\n"," ","q","\t","r","\n">>
CacheEmpty == <<>>

CacheFiles ==
  {NoFile, CacheEmpty, ScenarioACache, CacheTAD, CacheTwoFields, CacheOneField,
   CacheLeadingNewline, CacheFourFields, CachePadded}

ConfigAB == <<"a","c","c","o","u","n","t","_","i","d",":"," ","A","B","C","\n","a","p","p","_","k","e","y",":"," ","X","Y","Z","\n">>
ConfigBA == <<"a","p","p","_","k","e","y",":"," ","X","Y","Z","\n","a","c","c","o","u","n","t","_","i","d",":"," ","A","B","C","\n">>
ConfigUnknownKey == <<"a","c","c","o","u","n","t",":"," ","A","B","C","\n","a","p","p","_","k","e","y",":"," ","X","Y","Z","\n">>
ConfigOneLine == <<"a","c","c","o","u","n","t","_","i","d",":"," ","A","B","C","\n">>
ConfigEmpty == <<>>

ConfigFiles ==
  {NoFile, ConfigEmpty, ConfigAB, ConfigBA, ConfigUnknownKey, ConfigOneLine}

(* what keybuf and valbuf may hold before the first fscanf *)
JunkBuffers ==
  {[keybuf |-> <<>>, valbuf |-> <<>>], [keybuf |-> <<"?">>, valbuf |-> <<"?">>]}

(* JSON text *)
JStr(s) == <<Q>> \o s \o <<Q>>
Member(k, v) == JStr(k) \o <<":">> \o v
RECURSIVE Join(_)
Join(ms) ==
  IF ms = <<>> THEN <<>>
  ELSE IF Len(ms) = 1 THEN ms[1]
  ELSE ms[1] \o <<",">> \o Join(Tail(ms))
JObj(ms) == <<"{">> \o Join(ms) \o <<"}">>
JArr(vs) == <<"[">> \o Join(vs) \o <<"]">>

MTokenT == Member(AuthorizationTokenKey, JStr(<<"T">>))
MApiA == Member(ApiUrlKey, JStr(<<"A">>))
MDownD == Member(DownloadUrlKey, JStr(<<"D">>))
MAccount == Member(AccountIdJsonKey, JStr(<<"A","B","C">>))

(* Scenario B's body *)
BodyOk == JObj(<<MTokenT, MApiA, MDownD, MAccount>>)
(* Scenario D's body: no downloadUrl *)
BodyNoDownload == JObj(<<MTokenT, MApiA, MAccount>>)
BodyEmptyToken ==
  JObj(<<Member(AuthorizationTokenKey, JStr(<<>>)), MApiA, MDownD>>)
BodyUnknownKey == JObj(<<Member(<<"x">>, JStr(<<"y">>)), MDownD, MApiA, MTokenT>>)
BodyNumber == JObj(<<MTokenT, Member(ApiUrlKey, <<"5">>), MDownD>>)
BodySpace ==
  JObj(<<Member(AuthorizationTokenKey, JStr(<<"T"," ","U">>)), MApiA, MDownD>>)
BodyArrayRoot == JArr(<<JStr(<<"T">>), JStr(<<"A">>), JStr(<<"D">>)>>)
BodyPartial == <<"{">> \o Join(<<MTokenT, MApiA, MDownD>>)
BodyInvalid == <<"}">>
BodyNoMem == <<"{">> \o Rep("[", B2FS_SMALL_GENERIC_BUFFER)
(* a recognized key inside a nested object, after the root's own *)
BodyNestedAfter ==
  JObj(<<MTokenT, MApiA, MDownD,
         Member(<<"x">>, JObj(<<Member(ApiUrlKey, JStr(<<"Z">>))>>))>>)
(* the recognized keys only inside a nested object *)
BodyNestedOnly == JObj(<<Member(<<"x">>, JObj(<<MTokenT, MApiA, MDownD>>))>>)
(* an array value of one element ahead of the recognized keys *)
BodyArrayFirst ==
  JObj(<<Member(<<"x">>, JArr(<<<<"1">>>>)), MTokenT, MApiA, MDownD>>)
(* a last key without a value *)
BodyDangling == JObj(<<Member(<<"x">>, <<"1">>), JStr(ApiUrlKey)>>)
(* values of B2FS_TOKEN_LEN bytes and more *)
BodyLongToken ==
  JObj(<<Member(AuthorizationTokenKey, JStr(Rep("X", B2FS_TOKEN_LEN + 2))),
         MApiA, MDownD>>)
BodyFullDown ==
  JObj(<<MTokenT, MApiA, Member(DownloadUrlKey, JStr(Rep("Y", B2FS_TOKEN_LEN)))>>)

Bodies ==
  {BodyOk, BodyNoDownload, BodyEmptyToken, BodyUnknownKey, BodyNumber,
   BodySpace, BodyArrayRoot, BodyPartial, BodyInvalid, BodyNoMem,
   BodyNestedAfter, BodyNestedOnly, BodyArrayFirst, BodyDangling,
   BodyLongToken, BodyFullDown}

(* BodyOk delivered in two calls of the write callback *)
BodyOkHead == <<"{">> \o MTokenT \o <<",">>
BodyOkTail == Join(<<MApiA, MDownD, MAccount>>) \o <<"}">>

ErrorBody == <<"e","r","r">>
LongErrorBody == Rep("E", B2FS_TOKEN_LEN + 2)
CurlErrorText == <<"t","i","m","e","o","u","t">>

OtherCodes == {201, 400, 403, 500}

Remote(i, c, code, chunks) ==
  [init_ok |-> i, curl_ok |-> c, code |-> code, chunks |-> chunks,
   error |-> CurlErrorText]

Remotes ==
  {Remote(FALSE, FALSE, 0, <<>>)}
    \cup {Remote(TRUE, FALSE, 0, ch) : ch \in {<<>>, <<BodyOkHead>>}}
    \cup {Remote(TRUE, TRUE, 200, <<b>>) : b \in Bodies}
    \cup {Remote(TRUE, TRUE, 200, ch) :
            ch \in {<<>>, << <<>> >>, <<BodyOkHead, BodyOkTail>>}}
    \cup {Remote(TRUE, TRUE, 401, ch) : ch \in {<<>>, <<ErrorBody>>}}
    \cup {Remote(TRUE, TRUE, c, <<ErrorBody>>) : c \in OtherCodes}
    \cup {Remote(TRUE, TRUE, 500, ch) : ch \in {<<>>, <<LongErrorBody>>}}

(* what an entry of tokens[] that jsmn never filled may hold *)
JunkTokens ==
  {[type |-> JSMN_OBJECT, start |-> 0, end |-> 0],
   [type |-> JSMN_STRING, start |-> 0, end |-> 1],
   [type |-> JSMN_PRIMITIVE, start |-> 1, end |-> 0]}

(* jsmn_parse(&parser, data, strlen(data), tokens, B2FS_SMALL_GENERIC_BUFFER), *)
(* tabulated for the data the network can deliver                           *)
Deliverable ==
  Bodies \cup {BodyOkHead, BodyOkTail, ErrorBody, LongErrorBody, <<>>}
Tokenized == [d \in Deliverable |-> jsmn_parse(d, B2FS_SMALL_GENERIC_BUFFER)]
Tokenize(data) ==
  IF data \in Deliverable THEN Tokenized[data]
  ELSE jsmn_parse(data, B2FS_SMALL_GENERIC_BUFFER)

(* ------------------------------------------------------------------ *)
(* receive_string and attempt_authentication                            *)
(* ------------------------------------------------------------------ *)
NoData == <<NULL>>

(* one call of the write callback: *output = recvbuf; the buffer *output *)
(* pointed to before is not freed                                        *)
receive_string(heap, chunk) ==
  [data |-> chunk,
   leaked |-> heap.leaked + (IF heap.data # NoData THEN 1 ELSE 0)]

(* curl_easy_perform: the callback once per chunk delivered *)
RECURSIVE Deliver(_, _)
Deliver(heap, chunks) ==
  IF chunks = <<>> THEN heap
  ELSE Deliver(receive_string(heap, Head(chunks)), Tail(chunks))


(* the len bytes at data + start; past the string's NUL they are not ours *)
BytesAt(data, start, len) ==
  [i \in 1..len |-> IF start + i <= Len(data) THEN data[start + i]
                    ELSE IF start + i = Len(data) + 1 THEN NUL ELSE "?"]

jsmn_iskey(json, tok, s) ==
  /\ tok.type = JSMN_STRING
  /\ Len(s) = tok.end - tok.start
  /\ BytesAt(json, tok.start, tok.end - tok.start) = s

(* tokens[i]; an entry jsmn never filled holds what the stack held *)
TokAt(toks, i, junk) == IF i < Len(toks) THEN toks[i + 1] ELSE junk

(* memcpy(b2_info->field, data + value->start, len) *)
CopyValue(st, off, data, value) ==
  LET len == value.end - value.start
  IN IF len < 0 THEN [st EXCEPT !.crashed = TRUE]
     ELSE [st EXCEPT
             !.mem = Store(@, off, BytesAt(data, value.start, len), SizeofState),
             !.smashed = @ \/ Overrun(off, len, SizeofState)]

(* the body of the loop over the tokens, for the pair at i and i + 1 *)
ExtractPair(st, data, key, value) ==
  IF jsmn_iskey(data, key, AuthorizationTokenKey)
  THEN CopyValue(st, OffToken, data, value)
  ELSE IF jsmn_iskey(data, key, ApiUrlKey)
  THEN CopyValue(st, OffApiUrl, data, value)
  ELSE IF jsmn_iskey(data, key, DownloadUrlKey)
  THEN CopyValue(st, OffDownUrl, data, value)
  ELSE st

(* for (int i = 1; i < token_count; i++) { key = &tokens[i++]; ... } *)
RECURSIVE ExtractLoop(_, _, _, _, _, _)
ExtractLoop(st, data, toks, token_count, i, junk) ==
  IF i >= token_count \/ st.crashed THEN st
  ELSE ExtractLoop(
         ExtractPair(st, data, TokAt(toks, i, junk), TokAt(toks, i + 1, junk)),
         data, toks, token_count, i + 2, junk)

(* an extraction that writes over whatever the struct held *)
KeepBeforeExtract(mem) == mem

(* memset(b2_info, 0, sizeof(b2fs_state_t)) ahead of the loop *)
ClearBeforeExtract(mem) == Zeroed

(* a validation that looks at the token alone *)
ResponseValidTokenOnly(m) == strlen(m, OffToken) # 0

(* strlen(token) && strlen(api_url) && strlen(down_url) *)
ResponseValid(m) ==
  strlen(m, OffToken) # 0 /\ strlen(m, OffApiUrl) # 0 /\ strlen(m, OffDownUrl) # 0

(* the code == 200 branch; parsed is jsmn_parse(data, 256) *)
ParseResponse(mem, data, parsed, junk) ==
  IF parsed.count = JSMN_ERROR_NOMEM
       \/ TokAt(parsed.toks, 0, junk).type # JSMN_OBJECT
  THEN [ret |-> B2FS_NETWORK_API_ERROR, mem |-> mem, crashed |-> FALSE,
        smashed |-> FALSE]
  ELSE LET st == ExtractLoop([mem |-> ClearBeforeExtract(mem),
                              crashed |-> FALSE, smashed |-> FALSE],
                             data, parsed.toks, parsed.count, 1, junk)
           valid == ResponseValid(st.mem)
       IN [ret |-> IF valid THEN B2FS_SUCCESS ELSE B2FS_NETWORK_API_ERROR,
           mem |-> st.mem, crashed |-> st.crashed, smashed |-> st.smashed]

(* strncpy(b2_info->token, s, B2FS_TOKEN_LEN - 1);                       *)
(* b2_info->token[B2FS_TOKEN_LEN - 1] = '\0'                              *)
SetDiagnostic(mem, s) ==
  Store(strncpy(mem, OffToken, s, B2FS_TOKEN_LEN - 1, SizeofState),
        OffToken + B2FS_TOKEN_LEN - 1, <<NUL>>, SizeofState)

(* sprintf(conversionbuf, "%s:%s", auth->account_id, auth->app_key): the *)
(* credentials the Authorization header carries (base64 of this string)  *)
Credentials(acc) == CStr(acc, OffAccountId) \o <<":">> \o CStr(acc, OffAppKey)

(* a transfer that is performed a second time *)
PerformTwice(acc) == <<Credentials(acc), Credentials(acc)>>

(* curl_easy_perform(curl): the one request, carrying the credentials *)
Perform(acc) == <<Credentials(acc)>>

(* r: what the network does (r.init_ok: curl_easy_init, r.curl_ok:        *)
(* curl_easy_perform, r.code, r.chunks, r.error: curl_easy_strerror);     *)
(* junk: an unfilled tokens[] entry.  sent: the requests issued.           *)
attempt_authentication(acc, mem, r, junk) ==
  IF ~r.init_ok
  THEN [ret |-> B2FS_GENERIC_ERROR, mem |-> mem, crashed |-> FALSE,
        smashed |-> FALSE, sent |-> <<>>, leaked |-> 0]
  ELSE
    LET heap == Deliver([data |-> NoData, leaked |-> 0], r.chunks)
        data == heap.data
        out == IF ~r.curl_ok
               THEN [ret |-> B2FS_GENERIC_NETWORK_ERROR,
                     mem |-> SetDiagnostic(mem, r.error),
                     crashed |-> FALSE, smashed |-> FALSE]
               ELSE IF r.code = 200
               THEN IF data = NoData     \* strlen(NULL)
                    THEN [ret |-> B2FS_NETWORK_API_ERROR, mem |-> mem,
                          crashed |-> TRUE, smashed |-> FALSE]
                    ELSE ParseResponse(mem, data, Tokenize(data), junk)
               ELSE IF r.code = 401
               THEN [ret |-> B2FS_NETWORK_ACCESS_ERROR, mem |-> mem,
                     crashed |-> FALSE, smashed |-> FALSE]
               ELSE IF data = NoData     \* strncpy(..., NULL, ...)
                    THEN [ret |-> B2FS_NETWORK_INTERN_ERROR, mem |-> mem,
                          crashed |-> TRUE, smashed |-> FALSE]
                    ELSE [ret |-> B2FS_NETWORK_INTERN_ERROR,
                          mem |-> SetDiagnostic(mem, data),
                          crashed |-> FALSE, smashed |-> FALSE]
    IN [ret |-> out.ret, mem |-> out.mem, crashed |-> out.crashed,
        smashed |-> out.smashed, sent |-> Perform(acc),
        leaked |-> IF r.curl_ok /\ ~out.crashed
                   THEN heap.leaked
                   ELSE heap.leaked + (IF data # NoData THEN 1 ELSE 0)]

(* ------------------------------------------------------------------ *)
(* main                                                                 *)
(* ------------------------------------------------------------------ *)
VARIABLES
  pc,           \* where main is: start, cache_checked, config_read,
                \* authenticated, cached, fuse, exited, crashed
  env,          \* getenv and access("/tmp", R_OK)
  fs,           \* directory -> contents of its b2fs_cache.txt, or NoFile
  b2_info,      \* main's b2fs_state_t
  account,      \* main's b2_account_t
  retval,       \* main's retval
  exit_status,  \* the status passed to exit()
  calls,        \* the calls main made so far, in order, with what they returned
  sent,         \* the authorization requests issued: their credentials
  remote,       \* what the network did with the request
  leaked,       \* buffers of receive_string never freed
  fs0,          \* the file system when the process started
  written,      \* the b2fs_state_t cache_auth was last called with
  config,       \* the contents of the config file, or NoFile
  opened,       \* what each fopen(path, "w+") of cache_auth gave: TRUE for
                \* a stream, FALSE for NULL
  heap,         \* the blocks malloc gave out: address -> block
  made          \* the calls of create_stack so far, in order, with what
                \* they were given and what they returned

vars == <<pc, env, fs, b2_info, account, retval, exit_status, calls, sent,
          remote, leaked, fs0, written, config, opened, heap, made>>

(* the --bucket argument *)
Bucket == <<"b","k","t">>

NoRemote == Remote(FALSE, FALSE, 0, <<>>)

Call(fn, returned, ret) == [fn |-> fn, returned |-> returned, ret |-> ret]

(* a main that goes on to the config and the network whatever the cache gave *)
CacheMissedAlways(rv) == TRUE

(* if (retval): the cache gave no Session *)
CacheMissed(rv) == rv # B2FS_SUCCESS

(* a main that exits only when the credentials were rejected *)
AuthFailedOnlyAccess(rv) == rv = B2FS_NETWORK_ACCESS_ERROR

(* if (retval != B2FS_SUCCESS) exit(EXIT_FAILURE) *)
AuthFailed(rv) == rv # B2FS_SUCCESS

Init ==
  /\ pc = "start"
  /\ env \in Envs
  /\ fs \in {[d \in Dirs |-> IF d = CacheDir(env) THEN f ELSE NoFile] :
               f \in CacheFiles}
  /\ fs0 = fs
  /\ b2_info \in {Zeroed, Garbage(SizeofState)}
  /\ account \in {Zeroed, Garbage(SizeofAccount)}
  /\ retval = 0
  /\ exit_status = 0
  /\ calls = <<>>
  /\ sent = <<>>
  /\ remote = NoRemote
  /\ leaked = 0
  /\ written = Zeroed
  /\ opened = <<>>
  /\ heap = <<>>
  /\ made = <<>>
  /\ config \in ConfigFiles

(* retval = find_cached_auth(&b2_info) *)
FindCachedAuth ==
  /\ pc = "start"
  /\ LET res == find_cached_auth(b2_info, env, fs)
     IN /\ b2_info' = res.mem
        /\ retval' = res.ret
        /\ calls' = Append(calls, Call("find_cached_auth", TRUE, res.ret))
  /\ pc' = "cache_checked"
  /\ UNCHANGED <<env, fs, account, exit_status, sent, remote, leaked, fs0,
                 written, config,
                 opened, heap, made>>

(* a main that gives up when parse_config fails *)
ConfigFatalOnError(rv) == rv # B2FS_SUCCESS

(* the body of if (retval && parse_config(...)): write_log only, whatever *)
(* parse_config returned                                                  *)
ConfigFatal(rv) == FALSE

(* if (retval && parse_config(&account, config)) write_log(...) *)
ParseConfig ==
  /\ pc = "cache_checked"
  /\ CacheMissed(retval)
  /\ \E junk \in JunkBuffers :
       LET res == parse_config(account, config, junk)
       IN /\ account' = res.mem
          /\ calls' = Append(calls, Call("parse_config", TRUE, res.ret))
          /\ exit_status' = IF ConfigFatal(res.ret) THEN EXIT_FAILURE
                            ELSE exit_status
          /\ pc' \in (IF ConfigFatal(res.ret) THEN {"exited"}
                      ELSE {"config_read"})
                       \cup (IF res.smashed THEN {"crashed"} ELSE {})
  /\ UNCHANGED <<env, fs, b2_info, retval, sent, remote, leaked, fs0, written,
                 config,
                 opened, heap, made>>

(* if (retval) { retval = attempt_authentication(&account, &b2_info); ...  *)
(* if (retval != B2FS_SUCCESS) exit(EXIT_FAILURE);                         *)
AttemptAuthentication ==
  /\ pc = "config_read"
  /\ CacheMissed(retval)
  /\ \E r \in Remotes, junk \in JunkTokens :
       LET res == attempt_authentication(account, b2_info, r, junk)
           failed == ~res.crashed /\ AuthFailed(res.ret)
       IN /\ b2_info' = res.mem
          /\ retval' = IF res.crashed THEN retval ELSE res.ret
          /\ calls' = Append(calls, Call("attempt_authentication",
                                         ~res.crashed, res.ret))
          /\ sent' = sent \o res.sent
          /\ remote' = r
          /\ leaked' = leaked + res.leaked
          /\ exit_status' = IF failed THEN EXIT_FAILURE ELSE exit_status
          /\ pc' \in (IF res.crashed THEN {"crashed"}
                      ELSE IF failed THEN {"exited"}
                      ELSE {"authenticated"})
                       \cup (IF res.smashed THEN {"crashed"} ELSE {})
  /\ UNCHANGED <<env, fs, account, fs0, written, config,
                 opened, heap, made>>

(* cache_auth(&b2_info) *)
CacheAuth ==
  /\ pc = "authenticated"
  /\ \E can_open \in BOOLEAN :
       /\ fs' = cache_auth(b2_info, env, fs, can_open)
       /\ opened' = IF find_tmpdir(env) = NULL THEN opened
                    ELSE Append(opened, can_open)
  /\ written' = b2_info
  /\ calls' = Append(calls, Call("cache_auth", TRUE, 0))
  /\ pc' = "cached"
  /\ UNCHANGED <<env, b2_info, account, retval, exit_status, sent, remote,
                 leaked, fs0, config, heap, made>>

(* strcpy(b2_info.bucket, bucket); return fuse_main(1, argv, &mappings,   *)
(* &b2_info)                                                              *)
FuseMain ==
  /\ \/ pc = "cached"
     \/ pc = "cache_checked" /\ ~CacheMissed(retval)
  /\ b2_info' = StoreStr(b2_info, OffBucket, Bucket, SizeofState)
  /\ calls' = Append(calls, Call("fuse_main", FALSE, 0))
  /\ pc' = "fuse"
  /\ UNCHANGED <<env, fs, account, retval, exit_status, sent, remote, leaked,
                 fs0, written, config,
                 opened, heap, made>>

Next ==
  \/ FindCachedAuth
  \/ ParseConfig
  \/ AttemptAuthentication
  \/ CacheAuth
  \/ FuseMain

Spec == Init /\ [][Next]_vars

(* the Session as the rest of the process reads it *)
Session(mem) ==
  [token |-> CStr(mem, OffToken), api_url |-> CStr(mem, OffApiUrl),
   down_url |-> CStr(mem, OffDownUrl)]

TypeOK ==
  /\ pc \in {"start", "cache_checked", "config_read", "authenticated",
             "cached", "fuse", "exited", "crashed",
             "cache_start", "cache_written", "cache_read",
             "config_start", "config_loaded", "stack_ready"}
  /\ DOMAIN b2_info \subseteq 0..(SizeofState - 1)
  /\ DOMAIN account \subseteq 0..(SizeofAccount - 1)

(* ------------------------------------------------------------------ *)
(* The cache on its own: one process writes a Session with cache_auth, *)
(* a later process of the same environment reads it back with          *)
(* find_cached_auth                                                     *)
(* ------------------------------------------------------------------ *)
MaxFieldLen == 3

Blank == " "

RECURSIVE Strings(_, _)
Strings(alphabet, n) ==
  IF n = 0 THEN {<<>>}
  ELSE LET shorter == Strings(alphabet, n - 1)
       IN shorter \cup {Append(s, c) : s \in shorter, c \in alphabet}

(* the values of a field: a letter of its own and the blank *)
FieldValues(c) == Strings({c, Blank}, MaxFieldLen)

(* a b2fs_state_t holding the three fields, zero elsewhere *)
StateOf(t, a, d) ==
  StoreStr(StoreStr(StoreStr(Zeroed, OffToken, t, SizeofState),
                    OffApiUrl, a, SizeofState),
           OffDownUrl, d, SizeofState)

InitCache ==
  /\ pc = "cache_start"
  /\ env \in Envs
  /\ fs = [d \in Dirs |-> NoFile]
  /\ fs0 = fs
  /\ b2_info \in {StateOf(t, a, d) : t \in FieldValues("t"),
                                     a \in FieldValues("a"),
                                     d \in FieldValues("d")}
  /\ account = Zeroed
  /\ retval = 0
  /\ exit_status = 0
  /\ calls = <<>>
  /\ sent = <<>>
  /\ remote = NoRemote
  /\ leaked = 0
  /\ written = Zeroed
  /\ opened = <<>>
  /\ heap = <<>>
  /\ made = <<>>
  /\ config = NoFile

(* cache_auth(&b2_info) in the writing process *)
CacheWrite ==
  /\ pc = "cache_start"
  /\ \E can_open \in BOOLEAN :
       /\ fs' = cache_auth(b2_info, env, fs, can_open)
       /\ opened' = IF find_tmpdir(env) = NULL THEN opened
                    ELSE Append(opened, can_open)
  /\ written' = b2_info
  /\ calls' = Append(calls, Call("cache_auth", TRUE, 0))
  /\ pc' = "cache_written"
  /\ UNCHANGED <<env, b2_info, account, retval, exit_status, sent, remote,
                 leaked, fs0, config, heap, made>>

(* retval = find_cached_auth(&b2_info) in the reading process, whose      *)
(* b2_info starts zeroed or holding anything                              *)
CacheRead ==
  /\ pc = "cache_written"
  /\ \E fresh \in {Zeroed, Garbage(SizeofState)} :
       LET res == find_cached_auth(fresh, env, fs)
       IN /\ b2_info' = res.mem
          /\ retval' = res.ret
          /\ calls' = Append(calls, Call("find_cached_auth", TRUE, res.ret))
  /\ pc' = "cache_read"
  /\ UNCHANGED <<env, fs, account, exit_status, sent, remote, leaked, fs0,
                 written, config,
                 opened, heap, made>>

NextCache ==
  \/ CacheWrite
  \/ CacheRead

SpecCache == InitCache /\ [][NextCache]_vars

(* ------------------------------------------------------------------ *)
(* Properties of the bootstrap                                          *)
(* ------------------------------------------------------------------ *)
Called(fn) == {i \in 1..Len(calls) : calls[i].fn = fn}

CacheHit ==
  \E i \in Called("find_cached_auth") : calls[i].ret = B2FS_SUCCESS

CacheMiss ==
  \E i \in Called("find_cached_auth") : calls[i].ret # B2FS_SUCCESS

AuthReturned(code) ==
  \E i \in Called("attempt_authentication") :
     calls[i].returned /\ calls[i].ret = code

AuthSucceeded == AuthReturned(B2FS_SUCCESS)

Finished == pc \in {"fuse", "exited"}

NonEmpty(s) == s.token # <<>> /\ s.api_url # <<>> /\ s.down_url # <<>>

Triple(t, a, d) == [token |-> t, api_url |-> a, down_url |-> d]

(* the whitespace-delimited tokens of a file, by position *)
TokenStarts(f) ==
  {i \in 1..Len(f) : f[i] \notin Whitespace /\ (i = 1 \/ f[i - 1] \in Whitespace)}

TokenFrom(f, i) ==
  SubSeq(f, i, Min({j \in i..Len(f) : j = Len(f) \/ f[j + 1] \in Whitespace}))

NthToken(f, n) ==
  TokenFrom(f, CHOOSE i \in TokenStarts(f) :
                 Cardinality({j \in TokenStarts(f) : j < i}) = n - 1)

(* C1: when find_cached_auth returns B2FS_SUCCESS, main goes straight to  *)
(* fuse_main: the config is never read, no request is sent, nothing is    *)
(* written, and the Session handed on is the first three                  *)
(* whitespace-delimited tokens of the cache file.                         *)
C1_CacheHitShortCircuit ==
  CacheHit =>
    /\ pc \in {"cache_checked", "fuse"}
    /\ \A i \in 1..Len(calls) : calls[i].fn \in {"find_cached_auth", "fuse_main"}
    /\ sent = <<>>
    /\ remote = NoRemote
    /\ fs = fs0
    /\ pc = "cache_checked" => ENABLED FuseMain
    /\ pc = "fuse" =>
         LET f == fs0[CacheDir(env)]
         IN /\ Cardinality(TokenStarts(f)) >= 3
            /\ Session(b2_info) =
                 Triple(NthToken(f, 1), NthToken(f, 2), NthToken(f, 3))

(* Scenario A: the cache file holds tok123, https://api.example and       *)
(* https://dl.example, and fuse_main runs on them                         *)
C1_Witness ==
  /\ pc = "fuse"
  /\ CacheHit
  /\ fs0[CacheDir(env)] = ScenarioACache
  /\ Session(b2_info).token = <<"t","o","k","1","2","3">>

(* C2: whenever fuse_main is reached, the token, the api_url and the      *)
(* down_url of the Session it is given are all non-empty.                 *)
C2_SessionValidAtMount ==
  pc = "fuse" => NonEmpty(Session(b2_info))

(* Scenario B: fuse_main is reached by way of a successful authentication *)
C2_Witness ==
  /\ pc = "fuse"
  /\ AuthSucceeded
  /\ remote.chunks = <<BodyOk>>
  /\ Session(b2_info) = Triple(<<"T">>, <<"A">>, <<"D">>)

(* C3: once attempt_authentication has returned anything but              *)
(* B2FS_SUCCESS the process has exited with a non-zero status; it was the *)
(* last call main made, so neither cache_auth nor fuse_main ever runs,    *)
(* and the cache files are as they were when the process started.         *)
C3_AuthFailureTerminal ==
  \A i \in Called("attempt_authentication") :
     (calls[i].returned /\ calls[i].ret # B2FS_SUCCESS) =>
        /\ pc = "exited"
        /\ exit_status # 0
        /\ i = Len(calls)
        /\ Called("cache_auth") = {}
        /\ Called("fuse_main") = {}
        /\ fs = fs0

(* Scenario C: the server answers 401 *)
C3_Witness ==
  /\ pc = "exited"
  /\ remote.code = 401
  /\ AuthReturned(B2FS_NETWORK_ACCESS_ERROR)
  /\ exit_status = EXIT_FAILURE

(* the body a response carries: its chunks in the order they arrived *)
RECURSIVE Concat(_)
Concat(chunks) ==
  IF chunks = <<>> THEN <<>> ELSE chunks[1] \o Concat(Tail(chunks))

(* the bodies whose root object has the three members, each non-empty,    *)
(* and the values the members have                                        *)
Complete ==
  {BodyOk, BodyUnknownKey, BodyNumber, BodySpace, BodyNestedAfter,
   BodyArrayFirst, BodyLongToken, BodyFullDown}

RootFields(b) ==
  CASE b = BodyNumber -> Triple(<<"T">>, <<"5">>, <<"D">>)
    [] b = BodySpace -> Triple(<<"T"," ","U">>, <<"A">>, <<"D">>)
    [] b = BodyLongToken ->
         Triple(Rep("X", B2FS_TOKEN_LEN + 2), <<"A">>, <<"D">>)
    [] b = BodyFullDown -> Triple(<<"T">>, <<"A">>, Rep("Y", B2FS_TOKEN_LEN))
    [] OTHER -> Triple(<<"T">>, <<"A">>, <<"D">>)

(* the bodies that do not tokenize, have no object at the root, or lack   *)
(* one of the three members or its value                                  *)
Deficient ==
  {BodyNoDownload, BodyEmptyToken, BodyArrayRoot, BodyPartial, BodyInvalid,
   BodyNoMem, BodyDangling}

(* C4: after a cache miss and a successful attempt_authentication,        *)
(* cache_auth is called with the new Session before fuse_main, the        *)
(* Session handed on holds the values of the response's                   *)
(* authorizationToken, apiUrl and downloadUrl, and the cache file, when   *)
(* it was written, holds those three values in that order.                *)
C4_CacheMissHappyPath ==
  (pc = "fuse" /\ CacheMiss /\ AuthSucceeded) =>
     LET body == Concat(remote.chunks)
         dir == find_tmpdir(env)
     IN /\ [i \in 1..Len(calls) |-> calls[i].fn] =
             <<"find_cached_auth", "parse_config", "attempt_authentication",
               "cache_auth", "fuse_main">>
        /\ body \in Complete =>
             /\ Session(written) = RootFields(body)
             /\ Session(b2_info) = RootFields(body)
             /\ (dir # NULL /\ fs[dir] # fs0[dir]) =>
                  fs[dir] = RootFields(body).token \o <<"\n">>
                              \o RootFields(body).api_url \o <<"\n">>
                              \o RootFields(body).down_url

(* C5: a Session whose three fields are non-empty, written by cache_auth, *)
(* is read back by find_cached_auth with B2FS_SUCCESS and field for field *)
(* equal, blanks in the fields included.                                  *)
C5_CacheRoundTrip ==
  (/\ pc = "cache_read"
   /\ find_tmpdir(env) # NULL
   /\ fs[CacheDir(env)] # NoFile
   /\ NonEmpty(Session(written))) =>
     /\ retval = B2FS_SUCCESS
     /\ Session(b2_info) = Session(written)

(* C6: find_cached_auth returns B2FS_SUCCESS exactly when the three       *)
(* fields cache_auth stored are all non-empty, and never when the         *)
(* directory does not resolve or the file is absent.                      *)
C6_CacheReadValidity ==
  pc = "cache_read" =>
     IF find_tmpdir(env) # NULL /\ fs[CacheDir(env)] # NoFile
     THEN retval = B2FS_SUCCESS <=> NonEmpty(Session(written))
     ELSE retval # B2FS_SUCCESS

(* the code each outcome of the request is classified as *)
Classified(r) ==
  IF ~r.init_ok THEN {B2FS_GENERIC_ERROR}
  ELSE IF ~r.curl_ok THEN {B2FS_GENERIC_NETWORK_ERROR}
  ELSE IF r.code = 200 THEN {B2FS_SUCCESS, B2FS_NETWORK_API_ERROR}
  ELSE IF r.code = 401 THEN {B2FS_NETWORK_ACCESS_ERROR}
  ELSE {B2FS_NETWORK_INTERN_ERROR}

(* C7: every call of attempt_authentication returns, and with the code of *)
(* its outcome: B2FS_GENERIC_ERROR without a handle,                      *)
(* B2FS_GENERIC_NETWORK_ERROR on a transport failure,                     *)
(* B2FS_NETWORK_ACCESS_ERROR on 401, B2FS_SUCCESS or                      *)
(* B2FS_NETWORK_API_ERROR on 200, B2FS_NETWORK_INTERN_ERROR on any other  *)
(* status.                                                                *)
C7_ClassificationTotal ==
  \A i \in Called("attempt_authentication") :
     calls[i].returned /\ calls[i].ret \in Classified(remote)

(* C8: on HTTP 200 attempt_authentication returns B2FS_SUCCESS exactly    *)
(* when the body tokenizes, has an object at the root and has the three   *)
(* members with non-empty values, and B2FS_NETWORK_API_ERROR otherwise.   *)
C8_ParserSuccessCondition ==
  \A i \in Called("attempt_authentication") :
     (calls[i].returned /\ remote.init_ok /\ remote.curl_ok
        /\ remote.code = 200) =>
        LET body == Concat(remote.chunks)
        IN /\ body \in Complete => calls[i].ret = B2FS_SUCCESS
           /\ body \in Deficient => calls[i].ret = B2FS_NETWORK_API_ERROR

AtMostOnce(fn) == Cardinality(Called(fn)) <= 1

NoSecondAttempt ==
  /\ Len(sent) <= 1
  /\ AtMostOnce("find_cached_auth")
  /\ AtMostOnce("parse_config")
  /\ AtMostOnce("attempt_authentication")

(* C9 as stated: the request is sent at most once, exactly once in a run  *)
(* that missed the cache and never in a run that hit it, and the cache,   *)
(* the config and the network are each tried at most once.                *)
C9_NoRetryAsStated ==
  /\ NoSecondAttempt
  /\ CacheHit => Len(sent) = 0
  /\ (CacheMiss /\ Finished) => Len(sent) = 1

(* C9: the request is sent at most once: exactly once in a run that       *)
(* missed the cache and got a handle from curl_easy_init, never in a run  *)
(* that hit the cache or got no handle; and the cache, the config and     *)
(* the network are each tried at most once.                               *)
C9_NoRetry ==
  /\ NoSecondAttempt
  /\ CacheHit => Len(sent) = 0
  /\ (CacheMiss /\ Finished) => Len(sent) = (IF remote.init_ok THEN 1 ELSE 0)

(* Scenario E: the one request fails in transport and the process exits *)
C9_Witness ==
  /\ pc = "exited"
  /\ CacheMiss
  /\ retval = B2FS_GENERIC_NETWORK_ERROR
  /\ Len(sent) = 1

(* the bytes of the three Session fields *)
Fields(mem) == [o \in {x \in DOMAIN mem : x < OffBucket} |-> mem[o]]

(* C10: after a successful attempt_authentication the three Session       *)
(* fields hold what the same response leaves in a zeroed struct: nothing  *)
(* a failed cache read stored is left in them.                            *)
C10_SingleSourceSession ==
  (AuthSucceeded /\ pc \in {"authenticated", "cached", "fuse"}) =>
     \E junk \in JunkTokens :
        Fields(b2_info) =
          Fields(attempt_authentication(account, Zeroed, remote, junk).mem)

(* a cache file of two fields was read into the struct, then Scenario B *)
C10_Witness ==
  /\ pc = "fuse"
  /\ AuthSucceeded
  /\ find_tmpdir(env) # NULL
  /\ fs0[CacheDir(env)] = CacheTwoFields
  /\ Session(ScanCache(CacheTwoFields, Zeroed)).token = <<"t","o","k">>
  /\ remote.chunks = <<BodyOk>>
  /\ Session(b2_info) = Triple(<<"T">>, <<"A">>, <<"D">>)

(* ------------------------------------------------------------------ *)
(* parse_config on its own: config files of two lines, "key value"      *)
(* ------------------------------------------------------------------ *)
UnknownKey == <<"a","c","c","o","u","n","t",":">>

ConfigKeys == {AccountIdKey, AppKeyKey, UnknownKey}

Line(k, v) == k \o <<" ">> \o v \o <<"\n">>

TwoLines(k1, v1, k2, v2) == Line(k1, v1) \o Line(k2, v2)

(* values that fill a field to its last byte, and values a byte or more *)
(* longer than account_id, app_key and valbuf                           *)
ConfigValues ==
  {<<"A","B","C">>, <<"X","Y","Z">>,
   Rep("A", B2FS_ACCOUNT_ID_LEN - 1), Rep("B", B2FS_ACCOUNT_ID_LEN),
   Rep("C", B2FS_ACCOUNT_ID_LEN + 1),
   Rep("X", B2FS_APP_KEY_LEN - 1), Rep("Y", B2FS_APP_KEY_LEN),
   Rep("Z", B2FS_SMALL_GENERIC_BUFFER)}

ConfigInputs ==
  {TwoLines(k1, v1, k2, v2) : k1 \in ConfigKeys, k2 \in ConfigKeys,
                              v1 \in ConfigValues, v2 \in ConfigValues}

InitConfig ==
  /\ pc = "config_start"
  /\ config \in ConfigInputs
  /\ account \in {Zeroed, Garbage(SizeofAccount)}
  /\ env = Env(NULL, NULL, NULL, NULL, FALSE)
  /\ fs = [d \in Dirs |-> NoFile]
  /\ fs0 = fs
  /\ b2_info = Zeroed
  /\ retval = 0
  /\ exit_status = 0
  /\ calls = <<>>
  /\ sent = <<>>
  /\ remote = NoRemote
  /\ leaked = 0
  /\ written = Zeroed
  /\ opened = <<>>
  /\ heap = <<>>
  /\ made = <<>>

(* parse_config(&account, config) *)
ConfigLoad ==
  /\ pc = "config_start"
  /\ \E junk \in JunkBuffers :
       LET res == parse_config(account, config, junk)
       IN /\ account' = res.mem
          /\ calls' = Append(calls, Call("parse_config", TRUE, res.ret))
          /\ pc' \in {"config_loaded"}
                       \cup (IF res.smashed THEN {"crashed"} ELSE {})
  /\ UNCHANGED <<env, fs, b2_info, retval, exit_status, sent, remote, leaked,
                 fs0, written, config,
                 opened, heap, made>>

NextConfig == ConfigLoad

SpecConfig == InitConfig /\ [][NextConfig]_vars

(* the bytes a key's field has room for, its NUL included; for a key     *)
(* that names no field, the room of valbuf                               *)
Capacity(k) ==
  IF k = AccountIdKey THEN B2FS_ACCOUNT_ID_LEN
  ELSE IF k = AppKeyKey THEN B2FS_APP_KEY_LEN
  ELSE B2FS_SMALL_GENERIC_BUFFER

Trunc(v, n) == SubSeq(v, 1, IF Len(v) < n THEN Len(v) ELSE n)

(* the credentials a two-line file configures, each value cut to what    *)
(* its field holds                                                       *)
Configured(k1, v1, k2, v2) ==
  [account_id |-> IF k1 = AccountIdKey THEN Trunc(v1, B2FS_ACCOUNT_ID_LEN - 1)
                  ELSE IF k2 = AccountIdKey
                       THEN Trunc(v2, B2FS_ACCOUNT_ID_LEN - 1)
                  ELSE <<>>,
   app_key |-> IF k1 = AppKeyKey THEN Trunc(v1, B2FS_APP_KEY_LEN - 1)
               ELSE IF k2 = AppKeyKey THEN Trunc(v2, B2FS_APP_KEY_LEN - 1)
               ELSE <<>>]

AccountCredentials(mem) ==
  [account_id |-> CStr(mem, OffAccountId), app_key |-> CStr(mem, OffAppKey)]

ConfigLoaded ==
  /\ pc \in {"config_loaded", "crashed"}
  /\ Called("parse_config") # {}

C12_ConfigFailureFallsThrough ==
  Called("parse_config") # {} =>
    /\ pc = "config_read" => (exit_status = 0 /\ ENABLED AttemptAuthentication)
    /\ pc = "exited" =>
         \E i \in Called("attempt_authentication") :
            calls[i].returned /\ calls[i].ret # B2FS_SUCCESS
    /\ pc \in {"authenticated", "cached", "fuse"} => AuthSucceeded
    /\ sent # <<>> =>
         /\ sent = <<Credentials(account)>>
         /\ config = NoFile => sent[1] = <<":">>
         /\ config = ConfigUnknownKey => sent[1] = <<":","X","Y","Z">>
         /\ config = ConfigOneLine => sent[1] = <<"A","B","C",":">>

(* no config file: parse_config fails, the request goes out with empty   *)
(* credentials and the 401 ends the process                              *)
C12_Witness ==
  /\ pc = "exited"
  /\ config = NoFile
  /\ \E i \in Called("parse_config") : calls[i].ret = B2FS_GENERIC_ERROR
  /\ sent = << <<":">> >>
  /\ AuthReturned(B2FS_NETWORK_ACCESS_ERROR)

(* C13: for every two-line file, values longer than account_id, app_key  *)
(* or valbuf included, parse_config returns B2FS_SUCCESS without writing  *)
(* past a buffer, each field holds its value cut to capacity - 1 bytes    *)
(* and a terminator, and the other field is what its own key gave it.     *)
C13_CredentialBounds ==
  ConfigLoaded =>
    \A k1 \in ConfigKeys, k2 \in ConfigKeys :
      \A v1 \in ConfigValues, v2 \in ConfigValues :
        (k1 # k2 /\ config = TwoLines(k1, v1, k2, v2)) =>
           /\ pc = "config_loaded"
           /\ calls[1].ret = B2FS_SUCCESS
           /\ strlen(account, OffAccountId) < B2FS_ACCOUNT_ID_LEN
           /\ strlen(account, OffAppKey) < B2FS_APP_KEY_LEN
           /\ AccountCredentials(account) = Configured(k1, v1, k2, v2)

(* a 200 response whose body came in one piece was handled and          *)
(* attempt_authentication returned                                      *)
Answered(i) ==
  /\ calls[i].returned
  /\ remote.init_ok
  /\ remote.curl_ok
  /\ remote.code = 200
  /\ Len(remote.chunks) = 1

(* the complete bodies whose root object has no nested value *)
Flat == Complete \ {BodyNestedAfter, BodyArrayFirst}

(* C14: after a 200 response each Session field holds the value of its   *)
(* key cut to the 127 bytes the field has room for beside its            *)
(* terminator: the field is NUL-terminated inside its 128 bytes and the   *)
(* other fields hold their own values.                                    *)
C14_ResponseFieldBounds ==
  \A i \in Called("attempt_authentication") :
     (Answered(i) /\ remote.chunks[1] \in Flat /\ pc = "authenticated") =>
        LET r == RootFields(remote.chunks[1])
        IN /\ strlen(b2_info, OffToken) < B2FS_TOKEN_LEN
           /\ strlen(b2_info, OffApiUrl) < B2FS_TOKEN_LEN
           /\ strlen(b2_info, OffDownUrl) < B2FS_TOKEN_LEN
           /\ Session(b2_info) =
                Triple(Trunc(r.token, B2FS_TOKEN_LEN - 1),
                       Trunc(r.api_url, B2FS_TOKEN_LEN - 1),
                       Trunc(r.down_url, B2FS_TOKEN_LEN - 1))

(* C15: only the members of the root object count: recognized keys that  *)
(* appear only inside a nested object set no Session field, so the        *)
(* response is rejected; and a nested object or array among the members   *)
(* leaves the root's own three keys matched to their values.              *)
C15_ShallowScan ==
  \A i \in Called("attempt_authentication") :
     Answered(i) =>
       /\ remote.chunks[1] = BodyNestedOnly =>
            /\ calls[i].ret = B2FS_NETWORK_API_ERROR
            /\ ~NonEmpty(Session(b2_info))
       /\ remote.chunks[1] \in {BodyNestedAfter, BodyArrayFirst} =>
            /\ calls[i].ret = B2FS_SUCCESS
            /\ pc = "authenticated" =>
                 Session(b2_info) = Triple(<<"T">>, <<"A">>, <<"D">>)

(* ------------------------------------------------------------------ *)
(* find_tmpdir under every environment: each directory starts with a    *)
(* cache file of its own, cache_auth writes a Session and               *)
(* find_cached_auth reads under the same environment                    *)
(* ------------------------------------------------------------------ *)
DirTag(d) ==
  CASE d = "/a" -> <<"a">>
    [] d = "/b" -> <<"b">>
    [] d = "/c" -> <<"c">>
    [] d = "/d" -> <<"d">>
    [] OTHER -> <<"t","m","p">>

(* the Session the cache file of directory d holds at the start *)
DirSession(d) == Triple(DirTag(d), <<"u">>, <<"v">>)

DirFile(d) == DirTag(d) \o <<"\n","u","\n","v">>

InitTmpdir ==
  /\ pc = "cache_start"
  /\ env \in AllEnvs
  /\ fs = [d \in Dirs |-> DirFile(d)]
  /\ fs0 = fs
  /\ b2_info \in {StateOf(<<"T">>, <<"A">>, <<"D">>),
                  StateOf(<<"t","o","k">>, <<"a","p","i">>, <<"d","l">>)}
  /\ account = Zeroed
  /\ retval = 0
  /\ exit_status = 0
  /\ calls = <<>>
  /\ sent = <<>>
  /\ remote = NoRemote
  /\ leaked = 0
  /\ written = Zeroed
  /\ opened = <<>>
  /\ heap = <<>>
  /\ made = <<>>
  /\ config = NoFile

SpecTmpdir == InitTmpdir /\ [][NextCache]_vars

(* the variables in the order find_tmpdir asks for them *)
TmpVars == <<"TMPDIR", "TMP", "TEMP", "TEMPDIR">>

FirstSet(e) ==
  LET set == {i \in 1..Len(TmpVars) : e[TmpVars[i]] # NULL}
  IN IF set # {} THEN e[TmpVars[Min(set)]]
     ELSE IF e.tmp_readable THEN "/tmp"
     ELSE NULL

(* C16: find_tmpdir gives the value of the first of TMPDIR, TMP, TEMP,   *)
(* TEMPDIR that is set, /tmp when none is set and /tmp is readable, and   *)
(* nothing otherwise; cache_auth writes its file in that directory and    *)
(* in no other, and find_cached_auth reads the file of that directory.    *)
C16_TmpdirResolution ==
  LET dir == FirstSet(env)
  IN /\ find_tmpdir(env) = dir
     /\ pc \in {"cache_written", "cache_read"} =>
          /\ \A d \in Dirs \ {dir} : fs[d] = fs0[d]
          /\ dir # NULL =>
               fs[dir] = IF opened = <<TRUE>> THEN CacheRecord(written)
                         ELSE fs0[dir]
     /\ pc = "cache_read" =>
          IF dir = NULL THEN retval # B2FS_SUCCESS
          ELSE /\ retval = B2FS_SUCCESS
               /\ Session(b2_info) = IF opened = <<TRUE>> THEN Session(written)
                                     ELSE DirSession(dir)

(* TMPDIR is not set, TMP and TEMPDIR are: the file is written in TMP's  *)
(* directory and read back from it                                       *)
C16_Witness ==
  /\ pc = "cache_read"
  /\ env = Env(NULL, "/b", NULL, "/d", FALSE)
  /\ opened = <<TRUE>>
  /\ fs["/b"] = <<"T","\n","A","\n","D">>
  /\ fs["/d"] = DirFile("/d")
  /\ retval = B2FS_SUCCESS
  /\ Session(b2_info) = Triple(<<"T">>, <<"A">>, <<"D">>)

(* C17: cache_auth cannot fail the bootstrap: when no directory resolves *)
(* or fopen gives no stream, no file is changed; in every case the        *)
(* Session is what it was given, main has neither exited nor crashed,     *)
(* and fuse_main is its next step, on the authenticated Session.          *)
C17_CacheWriteNeverFails ==
  Called("cache_auth") # {} =>
     /\ AuthSucceeded
     /\ pc \in {"cached", "fuse"}
     /\ exit_status = 0
     /\ find_tmpdir(env) = NULL => opened = <<>>
     /\ (find_tmpdir(env) = NULL \/ opened = <<FALSE>>) => fs = fs0
     /\ Fields(b2_info) = Fields(written)
     /\ pc = "cached" => (b2_info = written /\ ENABLED FuseMain)

(* nothing resolves: after Scenario B's response no file is written and  *)
(* fuse_main runs on Session{T,A,D}                                       *)
C17_Witness ==
  /\ pc = "fuse"
  /\ find_tmpdir(env) = NULL
  /\ Called("cache_auth") # {}
  /\ fs = fs0
  /\ Session(b2_info) = Triple(<<"T">>, <<"A">>, <<"D">>)

(* the diagnostic: what the token buffer holds as a string *)
Diagnostic == CStr(b2_info, OffToken)

(* C18: when attempt_authentication has returned                         *)
(* B2FS_NETWORK_INTERN_ERROR the token buffer holds the response body cut *)
(* to 127 bytes; when B2FS_GENERIC_NETWORK_ERROR, the non-empty transport *)
(* error text cut likewise; when B2FS_NETWORK_ACCESS_ERROR, nothing,      *)
(* whatever find_cached_auth had read into it.                            *)
C18_DiagnosticPayload ==
  \A i \in Called("attempt_authentication") :
     calls[i].returned =>
       /\ calls[i].ret = B2FS_NETWORK_INTERN_ERROR =>
            Diagnostic = Trunc(Concat(remote.chunks), B2FS_TOKEN_LEN - 1)
       /\ calls[i].ret = B2FS_GENERIC_NETWORK_ERROR =>
            /\ Diagnostic = Trunc(remote.error, B2FS_TOKEN_LEN - 1)
            /\ Diagnostic # <<>>
       /\ calls[i].ret = B2FS_NETWORK_ACCESS_ERROR => Diagnostic = <<>>

(* what main's b2_info held when attempt_authentication was called *)
BeforeRequest == find_cached_auth(Zeroed, env, fs0).mem

(* the same outcome with the body delivered in one piece *)
InOnePiece(r) == [r EXCEPT !.chunks = << Concat(r.chunks) >>]

(* C19: however many calls of receive_string deliver the body, what is   *)
(* parsed or copied as the diagnostic is the chunks joined in order, so   *)
(* attempt_authentication returns and leaves b2_info as it does when the  *)
(* body comes in one piece; and no buffer it allocated is left unfreed    *)
(* when it returns.                                                       *)
C19_BodyAssembly ==
  \A i \in Called("attempt_authentication") :
     (/\ remote.init_ok
      /\ remote.curl_ok
      /\ remote.chunks # <<>>
      /\ calls[i].returned) =>
        /\ leaked = 0
        /\ \E junk \in JunkTokens :
             LET whole == attempt_authentication(account, BeforeRequest,
                                                 InOnePiece(remote), junk)
             IN /\ calls[i].ret = whole.ret
                /\ Fields(b2_info) = Fields(whole.mem)

(* C20: when the transfer succeeds and receive_string was never called,  *)
(* attempt_authentication reads nothing through the null data pointer:    *)
(* it returns, with B2FS_NETWORK_API_ERROR for 200,                       *)
(* B2FS_NETWORK_ACCESS_ERROR for 401 and B2FS_NETWORK_INTERN_ERROR for    *)
(* any other status.                                                      *)
C20_EmptyBody ==
  \A i \in Called("attempt_authentication") :
     (remote.init_ok /\ remote.curl_ok /\ remote.chunks = <<>>) =>
        /\ pc # "crashed"
        /\ calls[i].returned
        /\ calls[i].ret = IF remote.code = 200 THEN B2FS_NETWORK_API_ERROR
                          ELSE IF remote.code = 401
                               THEN B2FS_NETWORK_ACCESS_ERROR
                          ELSE B2FS_NETWORK_INTERN_ERROR

(* ------------------------------------------------------------------ *)
(* structures/stack.c: create_stack on its own. A process calls it a   *)
(* few times; each malloc and each create_list can fail.                *)
(* ------------------------------------------------------------------ *)
MaxStacks == 2

(* the addresses malloc can give out; when none is left it returns NULL *)
Addresses == <<"p1", "p2", "p3", "p4", "p5", "p6", "p7", "p8">>

(* the destruct argument: no destructor, or one *)
Destructors == {NULL, "free"}

(* the elem_len argument *)
ElemLens == {1, 8}

(* what is found in memory nobody wrote *)
Junk == "junk"

(* a block of the heap. A struct stack has the one field lst; a list_t  *)
(* is opaque here and keeps the arguments create_list was given.        *)
Block(kind, lst, elem_len, destruct) ==
  [kind |-> kind, live |-> TRUE, lst |-> lst, elem_len |-> elem_len,
   destruct |-> destruct]

(* the first address not given out yet, NULL when there is none *)
Fresh(h) ==
  LET unused == {i \in 1..Len(Addresses) : Addresses[i] \notin DOMAIN h}
  IN IF unused = {} THEN NULL ELSE Addresses[Min(unused)]

(* malloc(sizeof(stack_t)): a block with nothing written in it, or NULL *)
malloc(h, ok) ==
  LET p == IF ok THEN Fresh(h) ELSE NULL
  IN IF p = NULL THEN [ptr |-> NULL, heap |-> h]
     ELSE [ptr |-> p,
           heap |-> [a \in DOMAIN h \cup {p} |->
                       IF a = p THEN Block("stack", Junk, 0, NULL)
                       ELSE h[a]]]

(* create_list(elem_len, destruct): a new list, or NULL *)
create_list(h, elem_len, destruct, ok) ==
  LET p == IF ok THEN Fresh(h) ELSE NULL
  IN IF p = NULL THEN [ptr |-> NULL, heap |-> h]
     ELSE [ptr |-> p,
           heap |-> [a \in DOMAIN h \cup {p} |->
                       IF a = p THEN Block("list", NULL, elem_len, destruct)
                       ELSE h[a]]]

(* free(p): free(NULL) does nothing *)
free(h, p) == IF p = NULL THEN h ELSE [h EXCEPT ![p].live = FALSE]

(* what the read of stack->lst at line 19 does when stack is NULL: the  *)
(* process is killed, or the read gives a null or a non-null word        *)
NullReads == {"segv", "zero", "nonzero"}

(* create_stack(destruct, elem_len). stack_ok and list_ok say whether    *)
(* malloc and create_list find memory, null_read what a read through a   *)
(* null pointer does.                                                     *)
create_stack(h, destruct, elem_len, stack_ok, list_ok, null_read) ==
  LET m == malloc(h, stack_ok)
      stack == m.ptr
      \* if (stack) stack->lst = create_list(elem_len, destruct);
      l == IF stack # NULL
           THEN create_list(m.heap, elem_len, destruct, list_ok)
           ELSE [ptr |-> NULL, heap |-> m.heap]
      h1 == IF stack # NULL THEN [l.heap EXCEPT ![stack].lst = l.ptr]
            ELSE l.heap
      \* if (!stack->lst)
      deref_null == stack = NULL
      killed == deref_null /\ null_read = "segv"
      lst == IF stack # NULL THEN h1[stack].lst
             ELSE IF null_read = "zero" THEN NULL ELSE Junk
      \* free(stack); stack = NULL;
      h2 == IF lst = NULL THEN free(h1, stack) ELSE h1
      ret == IF lst = NULL THEN NULL ELSE stack
  IN [heap |-> IF killed THEN h1 ELSE h2,
      returned |-> ~killed,
      ret |-> IF killed THEN NULL ELSE ret,
      allocated |-> stack # NULL,
      listed |-> l.ptr # NULL,
      deref_null |-> deref_null]

InitStack ==
  /\ pc = "stack_ready"
  /\ heap = <<>>
  /\ made = <<>>
  /\ config = NoFile
  /\ account = Zeroed
  /\ env = Env(NULL, NULL, NULL, NULL, FALSE)
  /\ fs = [d \in Dirs |-> NoFile]
  /\ fs0 = fs
  /\ b2_info = Zeroed
  /\ retval = 0
  /\ exit_status = 0
  /\ calls = <<>>
  /\ sent = <<>>
  /\ remote = NoRemote
  /\ leaked = 0
  /\ written = Zeroed
  /\ opened = <<>>

(* stack_t *s = create_stack(destruct, elem_len) *)
CreateStack ==
  /\ pc = "stack_ready"
  /\ Len(made) < MaxStacks
  /\ \E destruct \in Destructors, elem_len \in ElemLens,
        stack_ok \in BOOLEAN, list_ok \in BOOLEAN, null_read \in NullReads :
       LET res == create_stack(heap, destruct, elem_len, stack_ok, list_ok,
                               null_read)
       IN /\ heap' = res.heap
          /\ made' = Append(made,
                            [destruct |-> destruct, elem_len |-> elem_len,
                             allocated |-> res.allocated,
                             listed |-> res.listed,
                             returned |-> res.returned, ret |-> res.ret,
                             deref_null |-> res.deref_null])
          /\ pc' = IF res.returned THEN pc ELSE "crashed"
  /\ UNCHANGED <<env, fs, b2_info, account, retval, exit_status, calls, sent,
                 remote, leaked, fs0, written, config, opened>>

NextStack == CreateStack

SpecStack == InitStack /\ [][NextStack]_vars

(* the stack allocation or the list creation of a call failed *)
CreationFailed(c) == ~c.allocated \/ ~c.listed

(* C21: whenever the stack allocation or the list creation fails,        *)
(* create_stack returns NULL and has read nothing through a null          *)
(* pointer; what it returns is a non-null stack, whose list is non-null,  *)
(* only when both succeeded.                                              *)
C21_CreateStackFailure ==
  \A i \in 1..Len(made) :
     LET c == made[i]
     IN /\ CreationFailed(c) =>
             /\ c.returned
             /\ c.ret = NULL
             /\ ~c.deref_null
        /\ (c.returned /\ c.ret # NULL) =>
             /\ ~CreationFailed(c)
             /\ heap[c.ret].lst # NULL

====
